---- MODULE Spec2Model ----
(***************************************************************************)
(* Model of the Anime Dashboard script (src/app.py): the rate-limited      *)
(* request helper, the shaping of raw anime records into table rows, the   *)
(* score filter and the summary statistics of the Search and Top views,    *)
(* and the Compare view with its selections, its cached suggestion lookups *)
(* and its comparison.                                                     *)
(*                                                                         *)
(* Scores are kept in tenths (8.5 is 85) so that they stay integers.       *)
(* Time is counted in seconds.                                             *)
(***************************************************************************)
EXTENDS Integers, Sequences, FiniteSets, TLC

VARIABLES
    view,        \* the view whose script run is in progress or was last run
    pc,          \* position of the script: "idle", "sleep", "get", "ret"
    min_score,   \* value of the "Minimum Score" slider of the run, in tenths
    frames,      \* call stack of rate_limited_request: the params of each frame
    sent,        \* the HTTP requests sent by the current call, in order: params,
                 \* seconds slept right before, seconds since the previous request
    resps,       \* responses received by the current call, in order
    outcome,     \* how the current call ended: returned value or raised error
    elapsed,     \* seconds since the previous HTTP request (NoRequest if none)
    sleptFor,    \* seconds slept by the current frame before its request
    display,     \* what the view rendered at the end of the run
    session_state, \* st.session_state: the selections anime1 and anime2
    cache,       \* the st.cache_data store of get_anime_suggestions, by term:
                 \* the stored list and the seconds since it was stored
    widgets,     \* Compare view: the two search boxes, the clicked button and
                 \* the suggestion lists the two columns were given
    stage,       \* Compare view: which of its requests is under way
    results1     \* Compare view: the result of the first comparison request

compareVars == <<session_state, cache, widgets, stage, results1>>

vars == <<view, pc, min_score, frames, sent, resps, outcome, elapsed,
          sleptFor, display, compareVars>>

-----------------------------------------------------------------------------
(* Bounds of the model *)

MaxRows == 2            \* longest data array of a response
MaxElapsed == 1         \* the clock since the last request saturates here
MaxCallRequests == 3    \* cap on the requests of one call (never binding)

NoRequest == -1

-----------------------------------------------------------------------------
(* JSON values and Python dictionaries *)

Num(n) == [k |-> "num", n |-> n, s |-> ""]
Str(s) == [k |-> "str", n |-> 0, s |-> s]

EmptyDict == [k \in {} |-> 0]

\* dict.get(key, default)
Get(obj, key, default) == IF key \in DOMAIN obj THEN obj[key] ELSE default

Restrict(obj, keys) == [k \in keys |-> obj[k]]

\* Python truthiness of a list-valued field
Truthy(list) == Len(list) > 0

Min(a, b) == IF a < b THEN a ELSE b

RECURSIVE SumSeq(_)
SumSeq(s) == IF Len(s) = 0 THEN 0 ELSE Head(s) + SumSeq(Tail(s))

-----------------------------------------------------------------------------
(* Raw records of the API *)

FullImages == [jpg |-> [image_url |-> Str("img"), small_image_url |-> Str("small")]]

RecFull ==
    [title |-> Str("A"), score |-> Num(85), type |-> Str("TV"),
     episodes |-> Num(12), members |-> Num(100), rank |-> Num(1),
     status |-> Str("Finished Airing"), year |-> Num(2020),
     synopsis |-> Str("syn"), images |-> FullImages]

RecordFields == DOMAIN RecFull

RecB == [title |-> Str("B"), score |-> Num(70), type |-> Str("Movie"),
         members |-> Num(50)]
RecNoTitle == [score |-> Num(90), type |-> Str("TV")]

RawRecords == {RecFull, RecB, RecNoTitle}

\* every way of leaving out top-level fields and parts of the image path
ImageVariants == {FullImages, [jpg |-> EmptyDict], EmptyDict}
PartialRecords ==
    { [k \in S |-> IF k = "images" THEN img ELSE RecFull[k]] :
          S \in SUBSET RecordFields, img \in ImageVariants }

RECURSIVE SeqsUpTo(_, _)
SeqsUpTo(S, n) ==
    IF n = 0 THEN {<<>>}
    ELSE LET shorter == SeqsUpTo(S, n - 1)
         IN  shorter \cup {Append(s, x) : s \in {t \in shorter : Len(t) = n - 1}, x \in S}

DataArrays == SeqsUpTo(RawRecords, MaxRows)

-----------------------------------------------------------------------------
(* Responses of the HTTP transport *)

ErrorBodies ==
    { [error |-> Str("rate limited")],
      [error |-> Str("bad request"), messages |-> [error |-> Str("invalid")]],
      [error |-> Str("bad request"), messages |-> [q |-> Str("too short")]],
      [error |-> Str("not found"), data |-> <<>>] }

OtherBodies ==
    { [error |-> Str("partial"), data |-> <<RecFull>>],
      [status |-> Num(200)] }

DataBodies == { [data |-> d] : d \in DataArrays }

Bodies == ErrorBodies \cup OtherBodies \cup DataBodies

\* an API answers a request carrying limit with at most that many records
BodiesFor(params) ==
    IF "limit" \in DOMAIN params
    THEN {b \in Bodies : "data" \in DOMAIN b => Len(b.data) <= params.limit}
    ELSE Bodies

TransportFailures == {"ConnectionError", "Timeout", "JSONDecodeError"}

\* response.status_code: the helper logs it and never calls raise_for_status
StatusCodes == {Num(200), Num(429)}

ResponsesFor(params) ==
    { [kind |-> "json", body |-> b, status |-> c] :
          b \in BodiesFor(params), c \in StatusCodes }
    \cup { [kind |-> "fail", cause |-> c] : c \in TransportFailures }

Responses == ResponsesFor(EmptyDict)

\* the responses that carry the status 200
OkResponses == {r \in Responses : r.kind = "json" => r.status = Num(200)}

\* params=None, the default of rate_limited_request
NoParams == [k |-> "none", n |-> 0, s |-> ""]

-----------------------------------------------------------------------------
(* rate_limited_request *)

\* time.sleep(1)
SleepSecs == 1

\* @st.cache_data(ttl=300)
cache_ttl == 300

AgedKeepsAll(store, secs) ==
    [t \in DOMAIN store |-> IF store[t].timed
                            THEN [store[t] EXCEPT !.age = @ + secs]
                            ELSE store[t]]

\* the store of st.cache_data after secs more seconds: an entry whose age
\* reaches the ttl is gone. An entry stored without a clock (timed FALSE)
\* keeps no age and is dropped by CacheExpire instead.
Aged(store, secs) ==
    LET kept == {t \in DOMAIN store :
                    store[t].timed => store[t].age + secs < cache_ttl}
    IN  [t \in kept |-> IF store[t].timed
                        THEN [store[t] EXCEPT !.age = @ + secs]
                        ELSE store[t]]

IsApiErrorAnyErrorKey(body) == "error" \in DOMAIN body

\* 'error' in json_data and not json_data.get('data')
IsApiError(body) ==
    "error" \in DOMAIN body /\ ~Truthy(Get(body, "data", <<>>))

\* json_data.get('messages', {}).get('error', str(json_data.get('error')))
ErrorMsg(body) == Get(Get(body, "messages", EmptyDict), "error", body.error)

ShouldRetryAlways(params) == "q" \in DOMAIN params

\* 'q' in params and len(params) > 1
ShouldRetry(params) ==
    "q" \in DOMAIN params /\ Cardinality(DOMAIN params) > 1

RetryParamsKeepSfw(params) == Restrict(params, DOMAIN params \cap {"q", "sfw"})

\* {'q': params['q']}
RetryParams(params) == [q |-> params.q]

\* 'q' in params, evaluated on an API-level error, raises TypeError for
\* params=None; TypeError is no RequestException and leaves the helper as it is
ParamsTestRaises(params) == params = NoParams

ErrorReturnRaises(body) == [kind |-> "raised", value |-> [exc |-> "Exception", cause |-> "ApiError"]]

\* return json_data  (on an API-level error that is not retried)
ErrorReturn(body) == [kind |-> "returned", value |-> body]

FailureSwallowed(cause, wrapped) == [kind |-> "returned", value |-> EmptyDict]

\* except requests.exceptions.RequestException as e:
\*     raise Exception(f"Failed to fetch data: {str(e)}")
\* A body that is not JSON makes response.json() raise; depending on the
\* version of requests that error is a RequestException (and is wrapped) or a
\* plain ValueError (and propagates as it is).
FailureOutcome(cause, wrapped) ==
    [kind |-> "raised",
     value |-> [exc |-> IF wrapped THEN "Exception" ELSE "ValueError",
                cause |-> cause]]

NoOutcome == [kind |-> "none"]

\* entry of rate_limited_request(url, params) from a view
Call(params) ==
    /\ frames' = <<params>>
    /\ sent' = <<>>
    /\ resps' = <<>>
    /\ outcome' = NoOutcome
    /\ sleptFor' = 0
    /\ pc' = "sleep"

SleepSkipped ==
    /\ pc = "sleep"
    /\ pc' = "get"
    /\ UNCHANGED <<view, min_score, frames, sent, resps, outcome, elapsed,
                   sleptFor, display, compareVars>>

\* time.sleep(1)
Sleep ==
    /\ pc = "sleep"
    /\ sleptFor' = SleepSecs
    /\ elapsed' = IF elapsed = NoRequest THEN NoRequest
                  ELSE Min(elapsed + SleepSecs, MaxElapsed)
    /\ cache' = Aged(cache, SleepSecs)
    /\ pc' = "get"
    /\ UNCHANGED <<view, min_score, frames, sent, resps, outcome, display,
                   session_state, widgets, stage, results1>>

\* requests.get(url, params=params), response.json() and the inspection of
\* the body, up to the return, the raise or the recursive call
HttpGet(resp, wrapped) ==
    /\ pc = "get"
    /\ Len(sent) < MaxCallRequests
    /\ LET params == frames[Len(frames)] IN
       /\ resp \in ResponsesFor(params)
       /\ sent' = Append(sent, [params |-> params, slept |-> sleptFor,
                                 gap |-> elapsed])
       /\ resps' = Append(resps, resp)
       /\ elapsed' = 0
       /\ IF resp.kind = "fail"
          THEN /\ outcome' = FailureOutcome(resp.cause,
                                 wrapped \/ resp.cause # "JSONDecodeError")
               /\ frames' = <<>>
               /\ pc' = "ret"
               /\ sleptFor' = 0
          ELSE IF IsApiError(resp.body) /\ ParamsTestRaises(params)
          THEN /\ outcome' = [kind |-> "raised",
                              value |-> [exc |-> "TypeError", cause |-> "params"]]
               /\ frames' = <<>>
               /\ pc' = "ret"
               /\ sleptFor' = 0
          ELSE IF IsApiError(resp.body) /\ ShouldRetry(params)
          THEN /\ frames' = Append(frames, RetryParams(params))
               /\ pc' = "sleep"
               /\ sleptFor' = 0
               /\ UNCHANGED outcome
          ELSE /\ outcome' = IF IsApiError(resp.body)
                             THEN ErrorReturn(resp.body)
                             ELSE [kind |-> "returned", value |-> resp.body]
               /\ frames' = <<>>
               /\ pc' = "ret"
               /\ sleptFor' = 0
    /\ UNCHANGED <<view, min_score, display, compareVars>>

\* time passing between two runs of the script
Tick ==
    /\ pc = "idle"
    /\ elapsed # NoRequest
    /\ elapsed < MaxElapsed
    /\ elapsed' = elapsed + 1
    /\ cache' = Aged(cache, 1)
    /\ UNCHANGED <<view, pc, min_score, frames, sent, resps, outcome,
                   sleptFor, display, session_state, widgets, stage, results1>>

\* a longer time passing between two runs of the script
Wait(secs) ==
    /\ pc = "idle"
    /\ cache # EmptyDict
    /\ elapsed' = IF elapsed = NoRequest THEN NoRequest ELSE MaxElapsed
    /\ cache' = Aged(cache, secs)
    /\ UNCHANGED <<view, pc, min_score, frames, sent, resps, outcome,
                   sleptFor, display, session_state, widgets, stage, results1>>

-----------------------------------------------------------------------------
(* Record shaping *)

\* anime.get('images', {}).get('jpg', {}).get('image_url', '')
ImageUrl(anime) ==
    Get(Get(Get(anime, "images", EmptyDict), "jpg", EmptyDict), "image_url", Str(""))

SearchRowNoDescription(anime) ==
    [title |-> anime.title,
     image |-> ImageUrl(anime),
     description |-> Get(anime, "synopsis", Str("")),
     score |-> Get(anime, "score", Num(0)),
     type |-> Get(anime, "type", Str("Unknown")),
     episodes |-> Get(anime, "episodes", Num(0)),
     members |-> Get(anime, "members", Num(0))]

\* the row built by the Search view
SearchRow(anime) ==
    [title |-> anime.title,
     image |-> ImageUrl(anime),
     description |-> Get(anime, "synopsis", Str("No description available")),
     score |-> Get(anime, "score", Num(0)),
     type |-> Get(anime, "type", Str("Unknown")),
     episodes |-> Get(anime, "episodes", Num(0)),
     members |-> Get(anime, "members", Num(0))]

\* the row built by the Top view
TopRow(anime) ==
    [title |-> anime.title,
     score |-> Get(anime, "score", Num(0)),
     members |-> Get(anime, "members", Num(0)),
     rank |-> Get(anime, "rank", Num(0)),
     type |-> Get(anime, "type", Str("Unknown")),
     episodes |-> Get(anime, "episodes", Str("N/A")),
     status |-> Get(anime, "status", Str("Unknown")),
     year |-> Get(anime, "year", Str("Unknown")),
     image_url |-> ImageUrl(anime)]

\* anime['title'] raises KeyError for a record without a title, which ends
\* the whole list comprehension
ShapingRaises(data) == \E i \in 1..Len(data) : "title" \notin DOMAIN data[i]

-----------------------------------------------------------------------------
(* Score filter and summary statistics *)

KeepRowStrict(row, minScore) == row.score.n > minScore

\* df['score'] >= min_score
KeepRow(row, minScore) == row.score.n >= minScore

RECURSIVE FilterByScore(_, _)
\* df[df['score'] >= min_score]
FilterByScore(rows, minScore) ==
    IF Len(rows) = 0 THEN <<>>
    ELSE IF KeepRow(Head(rows), minScore)
         THEN <<Head(rows)>> \o FilterByScore(Tail(rows), minScore)
         ELSE FilterByScore(Tail(rows), minScore)

DfEmptyNever(df) == FALSE

\* df.empty
DfEmpty(df) == Len(df) = 0

\* order of Python strings (by code point) on the type names of the model
CodepointOrder == <<"Movie", "Music", "ONA", "OVA", "Special", "TV", "Unknown">>
StrRank(s) == CHOOSE i \in 1..Len(CodepointOrder) : CodepointOrder[i] = s
StrLess(a, b) == StrRank(a) < StrRank(b)

TypeColumn(df) == [i \in 1..Len(df) |-> df[i].type.s]

\* df['type'].value_counts()[t]
ValueCount(col, t) == Cardinality({i \in 1..Len(col) : col[i] = t})

\* the values with the highest count
Modes(col) ==
    LET values == {col[i] : i \in 1..Len(col)}
    IN  {t \in values : \A u \in values : ValueCount(col, u) <= ValueCount(col, t)}

FirstIndex(col, t) == CHOOSE i \in 1..Len(col) :
                         col[i] = t /\ \A j \in 1..(i - 1) : col[j] # t

FirstSeenMode(col) ==
    CHOOSE t \in Modes(col) :
        \A u \in Modes(col) : FirstIndex(col, t) <= FirstIndex(col, u)

\* Series.mode()[0]: mode() returns the modes sorted
FirstMode(col) ==
    CHOOSE t \in Modes(col) : \A u \in Modes(col) : u = t \/ StrLess(t, u)

\* the Search Insights metrics
SearchSummary(df) ==
    [scoreSum |-> SumSeq([i \in 1..Len(df) |-> df[i].score.n]),
     count |-> Len(df),
     modalType |-> FirstMode(TypeColumn(df)),
     modalTypeCount |-> ValueCount(TypeColumn(df), FirstMode(TypeColumn(df))),
     totalMembers |-> SumSeq([i \in 1..Len(df) |-> df[i].members.n])]

\* the Key Insights metrics
TopSummary(df) ==
    [scoreSum |-> SumSeq([i \in 1..Len(df) |-> df[i].score.n]),
     count |-> Len(df),
     modalType |-> FirstMode(TypeColumn(df))]

-----------------------------------------------------------------------------
(* The views *)

Queries == {"foo"}
MinScores == {0, 50, 70, 85}

anime_types_display == <<"TV", "Movie", "OVA", "Special", "ONA", "Music">>
anime_types_api == <<"tv", "movie", "ova", "special", "ona", "music">>

\* anime_types_api[anime_types_display.index(t)], which is also t.lower()
ApiType(t) ==
    anime_types_api[CHOOSE i \in 1..Len(anime_types_display) : anime_types_display[i] = t]

\* ','.join(codes): the joined string is kept as the sequence of its parts
Join(codes) == codes

TypeSelections == {<<>>, <<"TV">>, <<"Movie", "TV">>}

\* the parameters assembled by the Search view
SearchParams(search_query, selected_types_display) ==
    LET selected_types_api ==
            [i \in 1..Len(selected_types_display) |-> ApiType(selected_types_display[i])]
    IN  IF Len(selected_types_api) > 0
        THEN [q |-> search_query, sfw |-> "true", type |-> Join(selected_types_api)]
        ELSE [q |-> search_query, sfw |-> "true"]

Categories == {"All Time Best", "Currently Airing", "Most Popular", "Upcoming Releases"}

category_mapping(c) ==
    CASE c = "Currently Airing" -> "airing"
      [] c = "Most Popular" -> "bypopularity"
      [] c = "Upcoming Releases" -> "upcoming"

TypeOptions == {"All Types", "TV", "Movie"}

TopParamsWithQuery(top_category, selected_type) ==
    [q |-> top_category, type |-> selected_type]

\* the parameters assembled by the Top view
TopParams(top_category, selected_type) ==
    LET keys == (IF top_category # "All Time Best" THEN {"filter"} ELSE {})
                \cup (IF selected_type # "All Types" THEN {"type"} ELSE {})
    IN  [k \in keys |-> IF k = "filter" THEN category_mapping(top_category)
                        ELSE Join(<<ApiType(selected_type)>>)]

NotSummarized == -1

NoDisplay == [kind |-> "none", shaped |-> <<>>, rows |-> <<>>,
              summary |-> EmptyDict, summarizedOver |-> NotSummarized,
              comparison |-> EmptyDict]

Message(kind) == [NoDisplay EXCEPT !.kind = kind]

\* what a view renders from the outcome of its request: shape the records,
\* filter by score, then either an empty-state message or the statistics
Render(v) ==
    IF outcome.kind = "raised" THEN Message("error")
    ELSE LET data == Get(outcome.value, "data", <<>>) IN
         IF ~Truthy(data) THEN Message("no_data")
         ELSE IF ShapingRaises(data) THEN Message("error")
         ELSE LET shaped == [i \in 1..Len(data) |->
                                IF v = "search" THEN SearchRow(data[i])
                                ELSE TopRow(data[i])]
                  df == FilterByScore(shaped, min_score)
              IN  IF DfEmpty(df)
                  THEN [Message("no_match") EXCEPT !.shaped = shaped]
                  ELSE IF Len(df) = 0
                  THEN \* mean() of no rows is NaN, then mode()[0] raises
                       [Message("error") EXCEPT !.shaped = shaped,
                                                !.summarizedOver = 0]
                  ELSE [NoDisplay EXCEPT !.kind = "results", !.shaped = shaped,
                                         !.rows = df,
                                         !.summary = IF v = "search"
                                                     THEN SearchSummary(df)
                                                     ELSE TopSummary(df),
                                         !.summarizedOver = Len(df)]

\* a run of the Search view up to its request (no request for an empty query)
SearchStart(search_query, score, selected) ==
    /\ pc = "idle"
    /\ view' = "search"
    /\ min_score' = score
    /\ display' = NoDisplay
    /\ IF search_query # ""
       THEN Call(SearchParams(search_query, selected))
       ELSE /\ pc' = "done"
            /\ UNCHANGED <<frames, sent, resps, outcome, sleptFor>>
    /\ UNCHANGED <<elapsed, compareVars>>

\* the rest of the run of the Search view
SearchFinish ==
    /\ pc = "ret"
    /\ view = "search"
    /\ display' = Render("search")
    /\ pc' = "done"
    /\ UNCHANGED <<view, min_score, frames, sent, resps, outcome, elapsed,
                   sleptFor, compareVars>>

\* a run of the Top view up to its request
TopStart(top_category, selected_type, score) ==
    /\ pc = "idle"
    /\ view' = "top"
    /\ min_score' = score
    /\ display' = NoDisplay
    /\ Call(TopParams(top_category, selected_type))
    /\ UNCHANGED <<elapsed, compareVars>>

\* the rest of the run of the Top view
TopFinish ==
    /\ pc = "ret"
    /\ view = "top"
    /\ display' = Render("top")
    /\ pc' = "done"
    /\ UNCHANGED <<view, min_score, frames, sent, resps, outcome, elapsed,
                   sleptFor, compareVars>>

-----------------------------------------------------------------------------
(* The Compare view *)

None == [k |-> "none", n |-> 0, s |-> ""]

\* truth value of a session selection: None and '' are false
Selected(v) == v.k = "str" /\ v.s # ""

\* str(v)
PyStr(v) == IF v.k = "num" THEN Str(ToString(v.n)) ELSE v

SuggestParams(search_term) == [q |-> search_term, sfw |-> "true", limit |-> 5]

\* one entry of the list returned by get_anime_suggestions
SuggestionEntry(anime) ==
    <<anime.title,
      Get(anime, "title_english", Str("")),
      Get(anime, "title_japanese", Str("")),
      Get(Get(Get(anime, "images", EmptyDict), "jpg", EmptyDict),
          "small_image_url", Str("")),
      PyStr(Get(anime, "mal_id", Str("")))>>

\* the value get_anime_suggestions returns after its request: every failure
\* inside the function is caught there and gives the empty list
SuggestionsFrom(result) ==
    IF result.kind = "raised" THEN <<>>
    ELSE LET data == Get(result.value, "data", <<>>) IN
         IF Truthy(data) /\ ~ShapingRaises(data)
         THEN [i \in 1..Len(data) |-> SuggestionEntry(data[i])]
         ELSE <<>>

NoClick == [kind |-> "none", side |-> 0, idx |-> 0]
Clicks ==
    {NoClick}
    \cup { [kind |-> "clear", side |-> sd, idx |-> 0] : sd \in 1..2 }
    \cup { [kind |-> "pick", side |-> sd, idx |-> i] : sd \in 1..2, i \in 1..MaxRows }

SelectionKeyFirst(side) == "anime1"

SelectionKey(side) == IF side = 1 THEN "anime1" ELSE "anime2"
ColumnPc(side) == IF side = 1 THEN "col1" ELSE "col2"
AfterColumn(side) == IF side = 1 THEN "col2" ELSE "cmp"
SuggestStage(side) == IF side = 1 THEN "sug1" ELSE "sug2"

NoSuggestions == <<<<>>, <<>>>>

NoWidgets == [search |-> <<"", "">>, click |-> NoClick,
              suggestions |-> NoSuggestions]

\* st.rerun(): the script starts again with the same widget values; the
\* clicked button is no longer pressed
Rerun ==
    /\ pc' = "col1"
    /\ widgets' = [widgets EXCEPT !.click = NoClick,
                                  !.suggestions = NoSuggestions]

\* a column is done, suggestions being the list it was given (suggestions1,
\* suggestions2); after the second column the widget values are not read again
LeaveColumn(side, suggestions) ==
    /\ pc' = AfterColumn(side)
    /\ widgets' =
         [search |-> IF side = 1 THEN widgets.search ELSE NoWidgets.search,
          click |-> IF side = 1 THEN widgets.click ELSE NoClick,
          suggestions |-> [widgets.suggestions EXCEPT ![side] = suggestions]]

EndOfRun ==
    /\ pc' = "done"
    /\ stage' = "none"

\* a run of the Compare view starts
CompareStart(search1, search2, click) ==
    /\ pc = "idle"
    /\ view' = "compare"
    /\ display' = NoDisplay
    /\ widgets' = [search |-> <<search1, search2>>, click |-> click,
                   suggestions |-> NoSuggestions]
    /\ pc' = "col1"
    /\ UNCHANGED <<min_score, frames, sent, resps, outcome, elapsed, sleptFor,
                   session_state, cache, stage, results1>>

\* the suggestion buttons of a column: a pressed one selects its title
SuggestionButtons(side, suggestions) ==
    IF /\ widgets.click.kind = "pick"
       /\ widgets.click.side = side
       /\ widgets.click.idx <= Len(suggestions)
    THEN /\ session_state' = [session_state EXCEPT
                                 ![SelectionKey(side)] = suggestions[widgets.click.idx][1]]
         /\ Rerun
    ELSE /\ LeaveColumn(side, suggestions)
         /\ UNCHANGED session_state

\* a column of the Compare view up to the suggestion lookup: the Clear
\* button, the search box and get_anime_suggestions until its request
Column(side) ==
    /\ pc = ColumnPc(side)
    /\ view = "compare"
    /\ LET search_term == widgets.search[side] IN
       IF /\ Selected(session_state[SelectionKey(side)])
          /\ widgets.click.kind = "clear"
          /\ widgets.click.side = side
       THEN /\ session_state' = [session_state EXCEPT ![SelectionKey(side)] = None]
            /\ Rerun
            /\ UNCHANGED <<frames, sent, resps, outcome, sleptFor, stage>>
       ELSE IF search_term = ""
       THEN /\ LeaveColumn(side, <<>>)
            /\ UNCHANGED <<session_state, frames, sent, resps, outcome,
                           sleptFor, stage>>
       ELSE IF search_term \in DOMAIN cache
       THEN /\ SuggestionButtons(side, cache[search_term].entries)
            /\ UNCHANGED <<frames, sent, resps, outcome, sleptFor, stage>>
       ELSE /\ Call(SuggestParams(search_term))
            /\ stage' = SuggestStage(side)
            /\ UNCHANGED <<session_state, widgets>>
    /\ UNCHANGED <<view, min_score, elapsed, display, cache, results1>>

CacheStoreNonEmptyOnly(search_term, suggestions, timed) ==
    IF suggestions = <<>> THEN cache
    ELSE [t \in DOMAIN cache \cup {search_term} |->
             IF t = search_term
             THEN [entries |-> suggestions, timed |-> timed, age |-> 0]
             ELSE cache[t]]

\* st.cache_data keeps the value the function returned under its argument
CacheStore(search_term, suggestions, timed) ==
    [t \in DOMAIN cache \cup {search_term} |->
        IF t = search_term
        THEN [entries |-> suggestions, timed |-> timed, age |-> 0]
        ELSE cache[t]]

\* get_anime_suggestions after its request, the storing of its value in the
\* cache, and the suggestion buttons of the column
SuggestionsReturn(side, timed) ==
    /\ pc = "ret"
    /\ view = "compare"
    /\ stage = SuggestStage(side)
    /\ LET search_term == widgets.search[side]
           suggestions == SuggestionsFrom(outcome)
       IN  /\ cache' = CacheStore(search_term, suggestions, timed)
           /\ SuggestionButtons(side, suggestions)
    /\ stage' = "none"
    /\ UNCHANGED <<view, min_score, frames, sent, resps, outcome, elapsed,
                   sleptFor, display, results1>>

\* @st.cache_data(ttl=300): an entry is dropped 300 seconds after it was
\* stored; for an entry stored without a clock, at any time between two runs
CacheExpire(search_term) ==
    /\ pc = "idle"
    /\ search_term \in DOMAIN cache
    /\ ~cache[search_term].timed
    /\ cache' = [t \in DOMAIN cache \ {search_term} |-> cache[t]]
    /\ elapsed' = IF elapsed = NoRequest THEN NoRequest ELSE MaxElapsed
    /\ UNCHANGED <<view, pc, min_score, frames, sent, resps, outcome, sleptFor,
                   display, session_state, widgets, stage, results1>>

CompareParams(title) == [q |-> title.s, sfw |-> "true", limit |-> 1]

\* after the two columns: the first comparison request, when both are selected
CompareCheck ==
    /\ pc = "cmp"
    /\ view = "compare"
    /\ IF Selected(session_state.anime1) /\ Selected(session_state.anime2)
       THEN /\ Call(CompareParams(session_state.anime1))
            /\ stage' = "cmp1"
            /\ UNCHANGED results1
       ELSE /\ EndOfRun
            /\ UNCHANGED <<frames, sent, resps, outcome, sleptFor, results1>>
    /\ widgets' = NoWidgets
    /\ UNCHANGED <<view, min_score, elapsed, display, session_state, cache>>

\* the first comparison request is over: the second one follows, unless the
\* first raised
CompareSecond ==
    /\ pc = "ret"
    /\ view = "compare"
    /\ stage = "cmp1"
    /\ IF outcome.kind = "raised"
       THEN /\ display' = Message("error")
            /\ EndOfRun
            /\ UNCHANGED <<frames, sent, resps, outcome, sleptFor, results1>>
       ELSE /\ results1' = outcome.value
            /\ Call(CompareParams(session_state.anime2))
            /\ stage' = "cmp2"
            /\ UNCHANGED display
    /\ UNCHANGED <<view, min_score, elapsed, session_state, cache, widgets>>

\* the metrics shown with progress bars: Score, Popularity, Episodes
MetricFields == {"score", "members", "episodes"}

\* st.caption(f"{a1['title']}: {val1:,}") with val1 = a1.get(field, 0): the
\* format ',' raises TypeError for None and ValueError for a string
FormatRaises(a) == \E f \in MetricFields : Get(a, f, Num(0)).k # "num"

\* a1['title'] and a1['images']['jpg']['image_url'] raise KeyError when absent
ComparisonRaises(a) ==
    \/ "title" \notin DOMAIN a
    \/ "images" \notin DOMAIN a
    \/ "jpg" \notin DOMAIN a.images
    \/ "image_url" \notin DOMAIN a.images.jpg
    \/ FormatRaises(a)

avg_episode_length == 23

\* isinstance(a.get('episodes'), int)
EpisodesKnown(a) == "episodes" \in DOMAIN a /\ a.episodes.k = "num"

\* {g['name'] for g in a.get('genres', [])}
GenreNames(a) ==
    LET genres == Get(a, "genres", <<>>)
    IN  {genres[i].name : i \in 1..Len(genres)}

\* the derived fields of a comparison
Comparison(a1, a2) ==
    LET score1 == Get(a1, "score", Num(0)).n
        score2 == Get(a2, "score", Num(0)).n
    IN  [title1 |-> a1.title,
         title2 |-> a2.title,
         higher |-> IF score1 > score2 THEN a1.title
                    ELSE IF score2 > score1 THEN a2.title ELSE None,
         common_genres |-> GenreNames(a1) \cap GenreNames(a2),
         time |-> IF EpisodesKnown(a1) /\ EpisodesKnown(a2)
                  THEN <<a1.episodes.n * avg_episode_length,
                         a2.episodes.n * avg_episode_length>>
                  ELSE <<>>]

\* the second comparison request is over: the comparison is rendered
CompareFinish ==
    /\ pc = "ret"
    /\ view = "compare"
    /\ stage = "cmp2"
    /\ display' =
         IF outcome.kind = "raised" THEN Message("error")
         ELSE LET data1 == Get(results1, "data", <<>>)
                  data2 == Get(outcome.value, "data", <<>>)
              IN  IF ~(Truthy(data1) /\ Truthy(data2)) THEN Message("not_found")
                  ELSE IF ComparisonRaises(data1[1]) \/ ComparisonRaises(data2[1])
                  THEN Message("error")
                  ELSE [NoDisplay EXCEPT !.kind = "comparison",
                                         !.comparison = Comparison(data1[1], data2[1])]
    /\ EndOfRun
    /\ UNCHANGED <<view, min_score, frames, sent, resps, outcome, elapsed,
                   sleptFor, session_state, cache, widgets, results1>>

-----------------------------------------------------------------------------
(* Between two runs *)

\* the run is over: its locals are gone and the next run redraws the page
Discard ==
    /\ pc = "done"
    /\ pc' = "idle"
    /\ view' = "none"
    /\ min_score' = 0
    /\ sent' = <<>>
    /\ resps' = <<>>
    /\ outcome' = NoOutcome
    /\ display' = NoDisplay
    /\ widgets' = NoWidgets
    /\ results1' = EmptyDict
    /\ UNCHANGED <<frames, elapsed, sleptFor, session_state, cache, stage>>

-----------------------------------------------------------------------------
(* Specification *)

Init ==
    /\ view = "none"
    /\ pc = "idle"
    /\ min_score = 0
    /\ frames = <<>>
    /\ sent = <<>>
    /\ resps = <<>>
    /\ outcome = NoOutcome
    /\ elapsed = NoRequest
    /\ sleptFor = 0
    /\ display = NoDisplay
    /\ session_state = [anime1 |-> None, anime2 |-> None]
    /\ cache = EmptyDict
    /\ widgets = NoWidgets
    /\ stage = "none"
    /\ results1 = EmptyDict

\* the steps of rate_limited_request
RequestNext ==
    \/ Sleep
    \/ \E resp \in Responses, wrapped \in BOOLEAN : HttpGet(resp, wrapped)

\* the same steps with every answer carrying the status 200: the status is
\* only logged, and the specifications of the Compare view leave it fixed
RequestNextOk ==
    \/ Sleep
    \/ \E resp \in OkResponses, wrapped \in BOOLEAN : HttpGet(resp, wrapped)

\* the runs of the Search and Top views
SearchTopNext ==
    \/ \E q \in Queries \cup {""}, score \in MinScores, sel \in TypeSelections :
           SearchStart(q, score, sel)
    \/ \E c \in Categories, t \in TypeOptions, score \in MinScores :
           TopStart(c, t, score)
    \/ SearchFinish
    \/ TopFinish

\* the runs of the Compare view
CompareNext ==
    \/ \E s1 \in Queries \cup {""}, s2 \in Queries \cup {""}, click \in Clicks :
           CompareStart(s1, s2, click)
    \/ \E side \in 1..2 : Column(side)
    \/ \E side \in 1..2 : SuggestionsReturn(side, FALSE)
    \/ CompareCheck
    \/ CompareSecond
    \/ CompareFinish
    \/ \E t \in Queries : CacheExpire(t)

\* the Search and Top views
Next ==
    \/ SearchTopNext
    \/ RequestNext
    \/ Tick
    \/ Discard

Spec == Init /\ [][Next]_vars

\* the Compare view
CompareViewNext ==
    \/ CompareNext
    \/ RequestNextOk
    \/ Tick
    \/ Discard

CompareSpec == Init /\ [][CompareViewNext]_vars

\* the suggestion lookups of the Compare view with the age of every cache
\* entry kept: two search terms, no suggestion picked, and waits between the
\* runs that end just before and at the ttl
CacheTerms == Queries \cup {"bar"}

WaitSteps == {cache_ttl - 1, cache_ttl}

CacheNext ==
    \/ \E s1 \in CacheTerms \cup {""}, s2 \in CacheTerms \cup {""} :
           CompareStart(s1, s2, NoClick)
    \/ \E side \in 1..2 : Column(side)
    \/ \E side \in 1..2 : SuggestionsReturn(side, TRUE)
    \/ CompareCheck
    \/ RequestNextOk
    \/ Tick
    \/ \E secs \in WaitSteps : Wait(secs)
    \/ Discard

CacheSpec == Init /\ [][CacheNext]_vars

\* the three views in one session, the Search and Top views with their
\* default widget values
AllViewsNext ==
    \/ \E q \in Queries : SearchStart(q, 50, <<"TV">>)
    \/ TopStart("All Time Best", "All Types", 70)
    \/ SearchFinish
    \/ TopFinish
    \/ CompareNext
    \/ RequestNextOk
    \/ Tick
    \/ Discard

AllViewsSpec == Init /\ [][AllViewsNext]_vars

\* the end of a run of the Search or Top view whose request was answered
\* with one record, any of its fields left out
ShapeInit ==
    /\ view \in {"search", "top"}
    /\ pc = "ret"
    /\ min_score = 0
    /\ frames = <<>>
    /\ \E r \in PartialRecords :
           LET params == IF view = "search" THEN SearchParams("foo", <<>>)
                         ELSE TopParams("All Time Best", "All Types")
               body == [data |-> <<r>>]
           IN  /\ sent = <<[params |-> params, slept |-> SleepSecs, gap |-> NoRequest]>>
               /\ resps = <<[kind |-> "json", body |-> body, status |-> Num(200)]>>
               /\ outcome = [kind |-> "returned", value |-> body]
    /\ elapsed = 0
    /\ sleptFor = 0
    /\ display = NoDisplay
    /\ session_state = [anime1 |-> None, anime2 |-> None]
    /\ cache = EmptyDict
    /\ widgets = NoWidgets
    /\ stage = "none"
    /\ results1 = EmptyDict

ShapeNext ==
    \/ SearchFinish
    \/ TopFinish

ShapeSpec == ShapeInit /\ [][ShapeNext]_vars

\* the records a comparison may be handed: a full record with any of its
\* optional fields left out, the image path cut short at any point, and the
\* episode count a number, null or absent
PairFull ==
    [title |-> Str("A"), score |-> Num(85), type |-> Str("TV"),
     episodes |-> Num(12), members |-> Num(100),
     status |-> Str("Finished Airing"), synopsis |-> Str("syn"),
     images |-> FullImages,
     genres |-> <<[name |-> "Action"], [name |-> "Drama"]>>,
     studios |-> <<[name |-> "Studio"]>>,
     aired |-> [string |-> Str("2020")]]

PairOther ==
    [title |-> Str("B"), score |-> Num(70), episodes |-> Num(24),
     members |-> Num(50), images |-> FullImages,
     genres |-> <<[name |-> "Drama"]>>]

OptionalFields == {"images", "synopsis", "score", "members", "episodes",
                   "genres", "studios", "aired"}

EpisodeValues == {Num(12), None}

PairRecords ==
    { [k \in (DOMAIN PairFull \ OptionalFields) \cup S |->
          IF k = "images" THEN img
          ELSE IF k = "episodes" THEN ep
          ELSE PairFull[k]] :
      S \in SUBSET OptionalFields, img \in ImageVariants, ep \in EpisodeValues }

PairPartners ==
    { PairFull, PairOther, [PairFull EXCEPT !.episodes = None],
      Restrict(PairFull, {"title"}) }

\* the end of a run of the Compare view whose two requests were each
\* answered with one record
PairInit ==
    /\ view = "compare"
    /\ pc = "ret"
    /\ stage = "cmp2"
    /\ min_score = 0
    /\ frames = <<>>
    /\ \E a1 \in PairRecords \cup PairPartners, a2 \in PairRecords \cup PairPartners :
           LET body == [data |-> <<a2>>] IN
           /\ a1 \in PairPartners \/ a2 \in PairPartners
           /\ session_state = [anime1 |-> a1.title, anime2 |-> a2.title]
           /\ results1 = [data |-> <<a1>>]
           /\ sent = <<[params |-> CompareParams(a2.title), slept |-> SleepSecs,
                        gap |-> SleepSecs]>>
           /\ resps = <<[kind |-> "json", body |-> body, status |-> Num(200)]>>
           /\ outcome = [kind |-> "returned", value |-> body]
    /\ elapsed = 0
    /\ sleptFor = 0
    /\ display = NoDisplay
    /\ cache = EmptyDict
    /\ widgets = NoWidgets

PairSpec == PairInit /\ [][CompareFinish]_vars

\* one call of rate_limited_request(url, params) on its own, params being
\* None (the default), the query alone or the query with another key
CallParams == {NoParams, [q |-> "foo"], [q |-> "foo", sfw |-> "true"],
               [filter |-> "airing"]}

CallInit ==
    /\ view = "none"
    /\ pc = "sleep"
    /\ min_score = 0
    /\ frames \in {<<p>> : p \in CallParams}
    /\ sent = <<>>
    /\ resps = <<>>
    /\ outcome = NoOutcome
    /\ elapsed \in {NoRequest} \cup 0..MaxElapsed
    /\ sleptFor = 0
    /\ display = NoDisplay
    /\ session_state = [anime1 |-> None, anime2 |-> None]
    /\ cache = EmptyDict
    /\ widgets = NoWidgets
    /\ stage = "none"
    /\ results1 = EmptyDict

CallSpec == CallInit /\ [][RequestNext]_vars

\* the Search and Top views, every step of a request eventually taken: the
\* script is sequential and the transport answers every request
FairSpec ==
    /\ Spec
    /\ WF_vars(Sleep)
    /\ WF_vars(\E resp \in Responses, wrapped \in BOOLEAN : HttpGet(resp, wrapped))

-----------------------------------------------------------------------------
(* Properties of rate_limited_request *)

MinInterval == 1

CallOver == pc \in {"ret", "done"}

ApiErrorAt(i) == resps[i].kind = "json" /\ IsApiError(resps[i].body)

HasExtraKeys(params) == "q" \in DOMAIN params /\ DOMAIN params # {"q"}

\* C1: a request answered by an API-level error whose parameters hold q and
\* at least one other key is the first request of its call and is followed by
\* exactly one more request, whose parameters are q alone with the same
\* value; a request with q alone answered by an API-level error is followed
\* by no request.
C1_RetryOnceWithQueryOnly ==
    \A i \in 1..Len(sent) :
        ApiErrorAt(i) =>
            /\ HasExtraKeys(sent[i].params) =>
                   /\ i = 1
                   /\ CallOver => Len(sent) = 2
                   /\ Len(sent) >= 2 => sent[2].params = [q |-> sent[1].params.q]
            /\ DOMAIN sent[i].params = {"q"} =>
                   /\ i = Len(sent)
                   /\ CallOver

C1_Witness ==
    /\ pc = "ret"
    /\ Len(sent) = 2
    /\ "type" \in DOMAIN sent[1].params
    /\ sent[2].params = [q |-> "foo"]
    /\ ApiErrorAt(2)

\* C2: a call of rate_limited_request sends at most two HTTP requests, is
\* over once the second one is answered, and every call that has started
\* comes to its end.
C2_AtMostTwoRequests ==
    /\ [](/\ Len(sent) <= 2
          /\ Len(frames) <= 2
          /\ Len(sent) = 2 => frames = <<>>)
    /\ (frames # <<>>) ~> (frames = <<>>)

C2_Witness ==
    /\ pc = "ret"
    /\ Len(sent) = 2
    /\ ApiErrorAt(1)
    /\ ApiErrorAt(2)
    /\ frames = <<>>

\* C3: when the call ends on an API-level error, after a retry or for
\* parameters with no key besides q, the call returns that error body, which
\* holds the error key, and raises nothing.
C3_ErrorBodyReturned ==
    (/\ CallOver
     /\ Len(resps) > 0
     /\ ApiErrorAt(Len(resps))
     /\ Len(sent) = 2 \/ DOMAIN sent[1].params \subseteq {"q"})
    => /\ outcome.kind = "returned"
       /\ outcome.value = resps[Len(resps)].body
       /\ "error" \in DOMAIN outcome.value

C3_Witness ==
    /\ pc = "ret"
    /\ Len(sent) = 2
    /\ ApiErrorAt(2)
    /\ outcome.kind = "returned"
    /\ "error" \in DOMAIN outcome.value

\* C4: every HTTP request is sent right after a sleep of at least the minimum
\* interval, and at least the minimum interval after the request before it,
\* whichever view or call sent that one.
C4_RequestsSpaced ==
    \A i \in 1..Len(sent) :
        /\ sent[i].slept >= MinInterval
        /\ sent[i].gap # NoRequest => sent[i].gap >= MinInterval

C4_Witness ==
    /\ view = "compare"
    /\ stage = "cmp2"
    /\ pc = "ret"
    /\ Len(sent) = 2
    /\ sent[1].gap >= MinInterval
    /\ sent[2].gap >= MinInterval

\* C5: a transport failure is the last thing that happens in a call: the call
\* raises an error that carries the cause and sends no further request,
\* whether the failed request was the original one or the retry.
C5_TransportFailureRaises ==
    \A i \in 1..Len(resps) :
        resps[i].kind = "fail" =>
            /\ i = Len(resps)
            /\ Len(sent) = i
            /\ frames = <<>>
            /\ outcome.kind = "raised"
            /\ outcome.value.cause = resps[i].cause

C5_Witness ==
    /\ pc = "ret"
    /\ Len(resps) = 2
    /\ resps[2].kind = "fail"
    /\ outcome.kind = "raised"

-----------------------------------------------------------------------------
(* Properties of the score filter *)

Shown == pc = "done" /\ display.kind \in {"results", "no_match"}

Kept(rows, minScore) == {i \in 1..Len(rows) : rows[i].score.n >= minScore}

\* C6: the filtered rows are exactly the shaped rows whose score is at least
\* the minimum score, the boundary included, in their original order.
C6_FilterKeepsExactly ==
    Shown =>
        LET kept == Kept(display.shaped, min_score) IN
        /\ Len(display.rows) = Cardinality(kept)
        /\ \A i \in kept :
               display.rows[Cardinality({j \in kept : j <= i})] = display.shaped[i]

C6_Witness ==
    /\ Shown
    /\ Len(display.rows) = 2
    /\ display.rows[1].title # display.rows[2].title
    /\ display.rows[2].score.n = min_score

-----------------------------------------------------------------------------
(* Properties of the record shaping *)

Answered == pc = "done" /\ outcome.kind = "returned"

ResponseData == Get(outcome.value, "data", <<>>)

HasImageUrl(anime) ==
    /\ "images" \in DOMAIN anime
    /\ "jpg" \in DOMAIN anime.images
    /\ "image_url" \in DOMAIN anime.images.jpg

\* the row fields with a default, the raw field each one is read from, and
\* the defaults the specification states
NumericFields == {"score", "episodes", "members", "rank"}
StringFields == {"type", "status", "year", "description"}
RawField(f) == IF f = "description" THEN "synopsis" ELSE f
StatedDefault(f) ==
    IF f \in NumericFields THEN Num(0)
    ELSE IF f = "description" THEN Str("No description available")
    ELSE Str("Unknown")

\* the defaults of the Top view that are not the stated ones
TopDefault(f) ==
    IF f = "episodes" THEN Str("N/A") ELSE StatedDefault(f)

ImageField == IF view = "search" THEN "image" ELSE "image_url"

ShapedWith(perView) ==
    (Answered /\ Truthy(ResponseData) /\ ~ShapingRaises(ResponseData)) =>
        /\ display.kind # "error"
        /\ Len(display.shaped) = Len(ResponseData)
        /\ \A i \in 1..Len(ResponseData) :
               LET anime == ResponseData[i]
                   row == display.shaped[i]
               IN  /\ row.title = anime.title
                   /\ \A f \in (NumericFields \cup StringFields) \cap DOMAIN row :
                          row[f] = IF RawField(f) \in DOMAIN anime
                                   THEN anime[RawField(f)]
                                   ELSE IF perView /\ view = "top" THEN TopDefault(f)
                                   ELSE StatedDefault(f)
                   /\ row[ImageField] = IF HasImageUrl(anime)
                                        THEN anime.images.jpg.image_url ELSE Str("")

\* C7 as stated: shaping a record that has a title never fails, every absent
\* numeric field (score, episodes, members, rank) becomes 0, every absent
\* string field "Unknown" (the description "No description available"), and
\* an absent image path the empty string.
C7_Original_AllDefaultsAsStated == ShapedWith(FALSE)

\* C7 amended: as stated, except that the Top view turns an absent episodes
\* field into the string "N/A".
C7_DefaultsPerView == ShapedWith(TRUE)

C7_Witness ==
    /\ Answered
    /\ view = "top"
    /\ DOMAIN ResponseData[1] = {"title"}
    /\ display.kind = "results"
    /\ display.shaped[1].episodes = Str("N/A")
    /\ display.shaped[1].rank = Num(0)

\* C8 as stated: a record without a title only loses its own row; the
\* records of the same response that have a title are still shaped and shown.
C8_OnlyTheMalformedRecordIsLost ==
    (Answered /\ view \in {"search", "top"}) =>
        \A i \in 1..Len(ResponseData) :
            "title" \in DOMAIN ResponseData[i] =>
                \E j \in 1..Len(display.shaped) :
                    display.shaped[j].title = ResponseData[i].title

-----------------------------------------------------------------------------
(* Properties of the summary statistics *)

Summarized == pc = "done" /\ display.kind = "results"

RowsOfType(t) == {i \in 1..Len(display.rows) : display.rows[i].type.s = t}
ShownTypes == {display.rows[i].type.s : i \in 1..Len(display.rows)}
FirstRowOfType(t) == CHOOSE i \in RowsOfType(t) : \A j \in RowsOfType(t) : i <= j

IsModal(t) ==
    /\ t \in ShownTypes
    /\ \A u \in ShownTypes : Cardinality(RowsOfType(u)) <= Cardinality(RowsOfType(t))

CountReported ==
    view = "search" =>
        display.summary.modalTypeCount = Cardinality(RowsOfType(display.summary.modalType))

\* C9 as stated: the modal type has the highest row count, among the types
\* that tie for it the one whose first row comes earliest, and the reported
\* count is the number of rows of that type.
C9_Original_FirstSeenAmongTies ==
    Summarized =>
        /\ IsModal(display.summary.modalType)
        /\ \A u \in ShownTypes :
               IsModal(u) => FirstRowOfType(display.summary.modalType) <= FirstRowOfType(u)
        /\ CountReported

\* C9 amended: the modal type has the highest row count, among the types
\* that tie for it the one that sorts first as a string, and the reported
\* count is the number of rows of that type.
C9_SortedFirstAmongTies ==
    Summarized =>
        /\ IsModal(display.summary.modalType)
        /\ \A u \in ShownTypes :
               (IsModal(u) /\ u # display.summary.modalType)
                   => StrLess(display.summary.modalType, u)
        /\ CountReported

C9_Witness ==
    /\ Summarized
    /\ view = "search"
    /\ Len(display.rows) = 2
    /\ display.rows[1].type = Str("TV")
    /\ display.rows[2].type = Str("Movie")
    /\ display.summary.modalType = "Movie"
    /\ display.summary.modalTypeCount = 1

\* C10: the statistics are never computed over no rows: a response without
\* data and a response none of whose rows passes the filter each end the run
\* with their empty-state message, not with an error.
C10_NoSummaryOfNothing ==
    /\ display.summarizedOver # 0
    /\ display.kind = "results" => Len(display.rows) > 0
    /\ (Answered /\ view \in {"search", "top"}) =>
           /\ ~Truthy(ResponseData) => display.kind = "no_data"
           /\ (/\ Truthy(ResponseData)
               /\ ~ShapingRaises(ResponseData)
               /\ Kept(display.shaped, min_score) = {})
              => display.kind = "no_match"

C10_Witness ==
    /\ Answered
    /\ view = "top"
    /\ Len(ResponseData) = 2
    /\ display.kind = "no_match"
    /\ display.summarizedOver = NotSummarized

-----------------------------------------------------------------------------
(* Further properties of rate_limited_request *)

\* the body has the key error and no data, or an empty data array
ErrorShaped(body) ==
    "error" \in DOMAIN body /\ ("data" \notin DOMAIN body \/ body.data = <<>>)

RetryFollows(i) == Len(sent) > i \/ (Len(sent) = i /\ Len(frames) = i + 1)

\* C14: an answer is handled as an API-level error exactly when its body has
\* the key error and its data is absent or empty, whatever its status code:
\* such an answer to a first request with q and another key is retried; any
\* other body, one with non-empty data beside an error key or one with
\* neither key included, ends the call, which returns that body unchanged.
C14_ErrorIsDecidedByTheBody ==
    \A i \in 1..Len(resps) :
        resps[i].kind = "json" =>
            LET body == resps[i].body IN
            /\ RetryFollows(i) => ErrorShaped(body)
            /\ (ErrorShaped(body) /\ i = 1 /\ HasExtraKeys(sent[1].params))
                   => RetryFollows(i)
            /\ ~ErrorShaped(body) =>
                   /\ i = Len(resps)
                   /\ frames = <<>>
                   /\ outcome = [kind |-> "returned", value |-> body]

C14_Witness ==
    /\ pc = "ret"
    /\ Len(sent) = 1
    /\ HasExtraKeys(sent[1].params)
    /\ resps[1].kind = "json"
    /\ resps[1].status = Num(429)
    /\ "error" \in DOMAIN resps[1].body
    /\ Len(Get(resps[1].body, "data", <<>>)) > 0
    /\ outcome = [kind |-> "returned", value |-> resps[1].body]

\* C15 as stated: the sleep before a request lasts only for what is left of
\* the minimum interval since the previous request, so it is skipped when
\* there was no previous request or the interval has already passed.
C15_Original_SleepsOnlyTheRemainder ==
    [][(pc = "sleep" /\ pc' = "get") =>
          /\ sleptFor' <= MinInterval
          /\ (elapsed = NoRequest \/ elapsed >= MinInterval) => sleptFor' = 0
          /\ (elapsed # NoRequest /\ elapsed < MinInterval)
                 => sleptFor' = MinInterval - elapsed]_vars

\* C15: the sleep before a request lasts exactly the minimum interval,
\* whatever time has passed since the previous request and also when there
\* was none; no sleep lasts longer.
C15_SleepsTheWholeInterval ==
    [][(pc = "sleep" /\ pc' = "get") => sleptFor' = MinInterval]_vars

C15_Witness ==
    /\ pc = "get"
    /\ sent = <<>>
    /\ elapsed = NoRequest
    /\ sleptFor = MinInterval

\* C17: a call with params omitted that is answered by an API-level error
\* returns the error body after that single request, and such a call raises
\* only when the transport fails.
C17_OmittedParamsReturnTheErrorBody ==
    (CallOver /\ sent # <<>> /\ sent[1].params = NoParams) =>
        /\ Len(sent) = 1
        /\ ApiErrorAt(1) => outcome = [kind |-> "returned", value |-> resps[1].body]
        /\ outcome.kind = "raised" => resps[1].kind = "fail"

\* C18: a request whose parameters lack q is the only request of its call,
\* and a JSON answer to it, an API-level error included, is what the call
\* returns; a run of the Top view sends such a request and no other.
C18_NoRetryWithoutQuery ==
    /\ \A i \in 1..Len(sent) :
           "q" \notin DOMAIN sent[i].params =>
               /\ Len(sent) = 1
               /\ Len(frames) <= 1
               /\ (CallOver /\ resps[1].kind = "json")
                      => outcome = [kind |-> "returned", value |-> resps[1].body]
    /\ (view = "top" /\ sent # <<>>) => "q" \notin DOMAIN sent[1].params
    /\ (view = "top" /\ pc = "done") => Len(sent) = 1

C18_Witness ==
    /\ view = "top"
    /\ pc = "done"
    /\ Len(sent) = 1
    /\ DOMAIN sent[1].params = {"filter", "type"}
    /\ ApiErrorAt(1)
    /\ outcome = [kind |-> "returned", value |-> resps[1].body]

-----------------------------------------------------------------------------
(* Properties of the comparison *)

Compared == view = "compare" /\ pc = "done" /\ outcome.kind = "returned"

FirstOf(body) == body.data[1]

HasTitleAndImage(a) ==
    /\ "title" \in DOMAIN a
    /\ "image_url" \in DOMAIN Get(Get(a, "images", EmptyDict), "jpg", EmptyDict)

IsInteger(a, field) == field \in DOMAIN a /\ a[field].k = "num"

\* C13: a comparison of two records that have a title and an image shows the
\* time estimate exactly when both episode counts are integers, then episodes
\* times 23 for each side; when an episode count is absent or not an integer
\* the comparison is still shown, without the estimate.
C13_TimeEstimateOnlyForKnownEpisodes ==
    Compared =>
        LET a1 == FirstOf(results1)
            a2 == FirstOf(outcome.value)
        IN  (HasTitleAndImage(a1) /\ HasTitleAndImage(a2)) =>
                /\ display.kind = "comparison"
                /\ IF IsInteger(a1, "episodes") /\ IsInteger(a2, "episodes")
                   THEN display.comparison.time =
                            <<a1.episodes.n * 23, a2.episodes.n * 23>>
                   ELSE display.comparison.time = <<>>

\* C16: two found records that each have a title produce a comparison,
\* whichever of images, synopsis, score, members, episodes, genres, studios
\* and aired they lack.
C16_OnlyTheTitleIsRequired ==
    Compared =>
        LET a1 == FirstOf(results1)
            a2 == FirstOf(outcome.value)
        IN  (/\ "title" \in DOMAIN a1 /\ "title" \in DOMAIN a2
             /\ \A a \in {a1, a2} : \A f \in DOMAIN a \cap MetricFields :
                    a[f].k = "num")
            => display.kind = "comparison"

-----------------------------------------------------------------------------
(* Properties of the suggestion cache and of the session *)

\* column side is about to look its search term up
Looking(side) ==
    /\ view = "compare"
    /\ pc = ColumnPc(side)
    /\ widgets.search[side] # ""
    /\ ~(/\ Selected(session_state[SelectionKey(side)])
         /\ widgets.click.kind = "clear"
         /\ widgets.click.side = side)

\* the request of the lookup of column side is over
Storing(side) == view = "compare" /\ pc = "ret" /\ stage = SuggestStage(side)

NoRequestSent == sent' = sent /\ frames' = frames /\ pc' # "sleep"

\* C12: a lookup of a term stored less than 300 seconds ago sends no request
\* and gives the stored entries; a lookup of a term not stored, or stored 300
\* seconds ago or more, sends a request for that term; what a lookup stores
\* is stored under its own term only, and the entries of a term change only
\* when a lookup of that term stores them.
C12_CacheIsReadThroughByTerm ==
    [][\A side \in 1..2 :
          LET t == widgets.search[side] IN
          /\ Looking(side) =>
                IF t \in DOMAIN cache /\ cache[t].age < 300
                THEN /\ NoRequestSent
                     /\ cache' = cache
                     /\ widgets'.suggestions[side] = cache[t].entries
                ELSE /\ pc' = "sleep"
                     /\ sent' = <<>>
                     /\ frames' = <<[q |-> t, sfw |-> "true", limit |-> 5]>>
          /\ Storing(side) =>
                /\ sent[1].params.q = t
                /\ DOMAIN cache' = DOMAIN cache \cup {t}
                /\ cache'[t].age = 0
                /\ cache'[t].entries = widgets'.suggestions[side]
                /\ \A u \in DOMAIN cache \ {t} : cache'[u] = cache[u]
          /\ ~Storing(side) =>
                \A u \in DOMAIN cache \cap DOMAIN cache' :
                    cache'[u].entries = cache[u].entries]_vars

C12_Witness ==
    /\ view = "compare"
    /\ pc = "col2"
    /\ sent = <<>>
    /\ widgets.search[1] = "foo"
    /\ "foo" \in DOMAIN cache
    /\ cache["foo"].age = 299
    /\ cache["foo"].entries # <<>>
    /\ widgets.suggestions[1] = cache["foo"].entries

\* the lookup failed: its request raised, or was answered by an API-level
\* error that was still there after the retry
LookupFailed ==
    \/ outcome.kind = "raised"
    \/ /\ outcome.kind = "returned"
       /\ "error" \in DOMAIN outcome.value
       /\ Get(outcome.value, "data", <<>>) = <<>>

\* C19: a lookup that fails gives the empty list and stores it under its
\* term like any other result; a lookup of a term whose stored list is empty
\* and less than 300 seconds old sends no request and gives the empty list.
C19_FailedLookupIsCachedAsEmpty ==
    [][\A side \in 1..2 :
          LET t == widgets.search[side] IN
          /\ (Storing(side) /\ LookupFailed) =>
                /\ t \in DOMAIN cache'
                /\ cache'[t].entries = <<>>
                /\ cache'[t].age = 0
                /\ widgets'.suggestions[side] = <<>>
          /\ (/\ Looking(side)
              /\ t \in DOMAIN cache
              /\ cache[t].age < 300
              /\ cache[t].entries = <<>>) =>
                /\ NoRequestSent
                /\ cache' = cache
                /\ widgets'.suggestions[side] = <<>>]_vars

C19_Witness ==
    /\ view = "compare"
    /\ pc = "col2"
    /\ Len(resps) = 2
    /\ ApiErrorAt(2)
    /\ widgets.search[1] = "foo"
    /\ "foo" \in DOMAIN cache
    /\ cache["foo"].entries = <<>>
    /\ cache["foo"].age = 0

\* a failure is at hand: the request of the run raised, or a record of its
\* answer is malformed, or the comparison fields cannot be computed
FailureAtHand ==
    /\ pc = "ret"
    /\ \/ outcome.kind = "raised"
       \/ /\ outcome.kind = "returned"
          /\ LET data == Get(outcome.value, "data", <<>>) IN
             \/ /\ view \in {"search", "top"} \/ stage \in {"sug1", "sug2"}
                /\ ShapingRaises(data)
             \/ /\ stage = "cmp2"
                /\ Truthy(data)
                /\ Truthy(Get(results1, "data", <<>>))
                /\ ComparisonRaises(data[1]) \/ ComparisonRaises(results1.data[1])

\* C11: a failure met during a run ends that run with an error shown by the
\* view, and leaves the two selections and the suggestion cache as they were.
C11_FailuresAreShownAndChangeNothing ==
    [][(FailureAtHand /\ (stage = "cmp1" => outcome.kind = "raised")) =>
          /\ pc' = "done"
          /\ display'.kind = "error"
          /\ session_state' = session_state
          /\ cache' = cache]_vars

BothSelected == Selected(session_state.anime1) /\ Selected(session_state.anime2)

InColumn(side) == pc = ColumnPc(side) \/ stage = SuggestStage(side)

\* C20: a step of the first column leaves anime2 as it is and a step of the
\* second column leaves anime1 as it is, and no other step changes either; the
\* comparison requests are sent only while both selections are set, those
\* for anime1 first, and those for anime2 only after the call for anime1 has
\* returned, its retry included.
C20_SelectionsAreIndependent ==
    /\ [][/\ InColumn(1) => session_state'.anime2 = session_state.anime2
          /\ InColumn(2) => session_state'.anime1 = session_state.anime1
          /\ session_state' # session_state => InColumn(1) \/ InColumn(2)
          /\ (stage' = "cmp2" /\ stage # "cmp2") =>
                 /\ stage = "cmp1"
                 /\ pc = "ret"
                 /\ frames = <<>>
                 /\ outcome.kind = "returned"
                 /\ results1' = outcome.value]_vars
    /\ [](stage \in {"cmp1", "cmp2"} =>
            /\ BothSelected
            /\ \A i \in 1..Len(sent) :
                   sent[i].params.q =
                       IF stage = "cmp1" THEN session_state.anime1.s
                       ELSE session_state.anime2.s
            /\ stage = "cmp1" => results1 = EmptyDict
            /\ stage = "cmp2" => results1 # EmptyDict)
    /\ []((view = "compare" /\ frames # <<>>) =>
            /\ stage \in {"sug1", "sug2", "cmp1", "cmp2"}
            /\ frames[1].limit = 1 <=> stage \in {"cmp1", "cmp2"})

C20_Witness ==
    /\ stage = "cmp2"
    /\ pc = "sleep"
    /\ Len(frames) = 2
    /\ session_state = [anime1 |-> Str("A"), anime2 |-> Str("B")]
    /\ results1 # EmptyDict

====
